---- MODULE Spec2Model ----
(***************************************************************************)
(* Breadth-first tracing of a nondeterministic Turing machine, as done by  *)
(* trace_tm in traceTM_tfriedma.py.  A Python string is a sequence of      *)
(* one-character strings; a one-character symbol is a sequence of length 1. *)
(***************************************************************************)
EXTENDS Integers, Sequences, FiniteSets, TLC

VARIABLES
    file,                 \* the lines of the definition file given to parse_tm_file
    reader,               \* the lines the csv reader has not yet returned
    machine,              \* the machine dictionary handed to trace_tm
    input_string,         \* parameter input_string
    print_path,           \* parameter print_path
    stop_condition,       \* parameter stop_condition
    queue,                \* the deque of (left_tape, current_state, right_tape, path)
    depth,                \* local depth
    states_explored,      \* local states_explored
    pc,                   \* "while": at the loop test; "for": inside the for loop; "done"
    cur,                  \* the tuple popped by popleft
    possible_transitions, \* local possible_transitions
    idx,                  \* position of the for loop in possible_transitions (1-based)
    result,               \* the returned string, "none" while running
    output,               \* what has been printed
    expanded,             \* history: every configuration popped so far, in order
    enqueued              \* history: every configuration appended at line 125, in order

vars == <<file, reader, machine, input_string, print_path, stop_condition, queue, depth,
          states_explored, pc, cur, possible_transitions, idx, result, output,
          expanded, enqueued>>

params == <<file, reader, machine, input_string, print_path, stop_condition>>

---------------------------------------------------------------------------
(* Bounds of the model *)

MaxInputLen == 2

MaxStop == 4

---------------------------------------------------------------------------
(* Strings and symbols *)

Blank == <<"_">>

InputChars == {"a", "b"}

RECURSIVE StringsUpTo(_)
StringsUpTo(n) ==
    IF n = 0 THEN {<<>>}
    ELSE LET shorter == StringsUpTo(n - 1)
         IN  shorter \cup {Append(s, c) : s \in {t \in shorter : Len(t) = n - 1}, c \in InputChars}

Max(a, b) == IF a >= b THEN a ELSE b

---------------------------------------------------------------------------
(* Machines: the dictionary built by parse_tm_file *)

T(next_state, replace_symbol, move_direction) ==
    <<next_state, <<replace_symbol>>, move_direction>>

K(current_state, input_symbol) == <<current_state, <<input_symbol>>>>

AllKeys == {K("q0", "a"), K("q0", "b"), K("q0", "_"),
            K("q1", "a"), K("q1", "b"), K("q1", "_")}

\* The rows a definition file may hold for each key, in file order.
RowChoices(key) ==
    CASE key = K("q0", "a") ->
            { <<>>,
              <<T("q1", "b", "R")>>,
              <<T("q0", "a", "R"), T("q1", "b", "R")>>,
              <<T("q1", "a", "L"), T("q0", "b", "R")>>,
              <<T("q1", "b", "R"), T("qa", "a", "R")>>,
              <<T("qa", "b", "D"), T("q1", "a", "R")>> }
      [] key = K("q0", "b") ->
            { <<>>, <<T("qa", "a", "L")>>, <<T("q0", "b", "R")>> }
      [] key = K("q0", "_") ->
            { <<>>, <<T("q1", "_", "L")>>, <<T("qa", "b", "R")>> }
      [] key = K("q1", "a") ->
            { <<>>, <<T("q0", "b", "L")>>, <<T("q1", "a", "R"), T("qa", "a", "R")>> }
      [] key = K("q1", "b") ->
            { <<>>, <<T("q0", "a", "L")>>, <<T("q1", "b", "D")>> }
      [] key = K("q1", "_") ->
            { <<>>, <<T("qa", "_", "L")>>, <<T("q0", "a", "L"), T("q1", "b", "R")>> }

\* parse_tm_file creates a key only when a row for it is read.
TransitionTable(rows) ==
    [key \in {k \in AllKeys : rows[k] # <<>>} |-> rows[key]]

RowsOf(r1, r2, r3, r4, r5, r6) ==
    [key \in AllKeys |->
        CASE key = K("q0", "a") -> r1
          [] key = K("q0", "b") -> r2
          [] key = K("q0", "_") -> r3
          [] key = K("q1", "a") -> r4
          [] key = K("q1", "b") -> r5
          [] key = K("q1", "_") -> r6]

Machines ==
    { [ start_state |-> "q0", accept_state |-> "qa", reject_state |-> "qr",
        transitions |-> TransitionTable(RowsOf(r1, r2, r3, r4, r5, r6)) ] :
      r1 \in RowChoices(K("q0", "a")), r2 \in RowChoices(K("q0", "b")),
      r3 \in RowChoices(K("q0", "_")), r4 \in RowChoices(K("q1", "a")),
      r5 \in RowChoices(K("q1", "b")), r6 \in RowChoices(K("q1", "_")) }

---------------------------------------------------------------------------
(* The pieces of trace_tm *)

\* get_transitions: the stored list for an exact key, else the empty list.
get_transitions(m, current_state, input_symbol) ==
    IF <<current_state, input_symbol>> \in DOMAIN m.transitions
    THEN m.transitions[<<current_state, input_symbol>>]
    ELSE <<>>

\* line 69: the tuple the queue starts with.
InitialConfiguration(m, s) ==
    [left_tape |-> <<>>, current_state |-> m.start_state, right_tape |-> s, path |-> <<>>]

\* A variant that takes the newest element (queue.pop()).
PopLeftLast(q) == <<q[Len(q)], SubSeq(q, 1, Len(q) - 1)>>

\* line 75: queue.popleft() gives the oldest element and leaves the rest.
PopLeft(q) == <<Head(q), Tail(q)>>

\* line 78: right_tape[0] if right_tape else '_'
ReadSymbol(right_tape) ==
    IF right_tape # <<>> THEN <<right_tape[1]>> ELSE Blank

\* A variant without the else branch: whatever is not "L" moves right.
MoveKindLenient(move_direction) ==
    IF move_direction = "L" THEN "L" ELSE "R"

\* lines 92, 95, 101: which branch of the if/elif/else a direction takes.
MoveKind(move_direction) ==
    IF move_direction = "R" THEN "R"
    ELSE IF move_direction = "L" THEN "L"
    ELSE "invalid"

\* A variant that moves right without writing replace_symbol.
MoveRightKeepRead(left_tape, right_tape, replace_symbol) ==
    << left_tape \o ReadSymbol(right_tape),
       IF Len(right_tape) > 1 THEN Tail(right_tape) ELSE Blank >>

\* A variant that moves right without supplying a blank at the end of the tape.
MoveRightNoBlank(left_tape, right_tape, replace_symbol) ==
    << left_tape \o replace_symbol,
       IF right_tape # <<>> THEN Tail(right_tape) ELSE <<>> >>

\* lines 93-94: the tapes after a right move.
MoveRight(left_tape, right_tape, replace_symbol) ==
    << left_tape \o replace_symbol,
       IF Len(right_tape) > 1 THEN Tail(right_tape) ELSE Blank >>

\* A variant that leaves the left tape as it is on a left move.
MoveLeftKeepsLeft(left_tape, right_tape, replace_symbol) ==
    << left_tape,
       <<left_tape[Len(left_tape)]>> \o replace_symbol \o
           (IF right_tape # <<>> THEN Tail(right_tape) ELSE Blank) >>

\* lines 98-100: the tapes after a left move (left_tape is not empty).
MoveLeft(left_tape, right_tape, replace_symbol) ==
    LET new_left_tape == SubSeq(left_tape, 1, Len(left_tape) - 1)
        current_char  == <<left_tape[Len(left_tape)]>>
    IN  << new_left_tape,
           IF right_tape # <<>>
           THEN current_char \o replace_symbol \o Tail(right_tape)
           ELSE current_char \o replace_symbol \o Blank >>

\* lines 92-100: the new tapes for a transition that produces a configuration.
NewTapes(c, transition) ==
    IF MoveKind(transition[3]) = "R"
    THEN MoveRight(c.left_tape, c.right_tape, transition[2])
    ELSE MoveLeft(c.left_tape, c.right_tape, transition[2])

\* line 105: path + [(current_state, input_symbol, next_state, replace_symbol, move_direction)]
NewPath(c, transition) ==
    Append(c.path, << c.current_state, ReadSymbol(c.right_tape),
                      transition[1], transition[2], transition[3] >>)

\* line 125: the tuple appended to the queue.
NewConfiguration(c, transition) ==
    [left_tape |-> NewTapes(c, transition)[1], current_state |-> transition[1],
     right_tape |-> NewTapes(c, transition)[2], path |-> NewPath(c, transition)]

\* A variant that takes the length of path instead of new_path.
NewDepthOfParent(d, new_path) == Max(d, Len(new_path) - 1)

\* line 128: depth = max(depth, len(new_path))
NewDepth(d, new_path) == Max(d, Len(new_path))

\* A variant that stops only beyond the stop condition.
StopReachedStrict(d, stop) == d > stop

\* line 129: depth >= stop_condition
StopReached(d, stop) == d >= stop

\* The verdict labels and return values of the three report blocks.
AcceptLabel == "Accept!"
AcceptOutcome == "accepted"
ExhaustedLabel == "Reject!"
ExhaustedOutcome == "max depth exceeded"
RejectLabel == "Reject!"
RejectOutcome == "not accepted"
InvalidOutcome == "invalid move direction"
\* states_explored / depth with depth = 0 raises instead of returning.
DivisionError == "ZeroDivisionError"

NoOutput ==
    [label |-> "", depth |-> -1, transitions |-> -1, average |-> <<>>,
     path |-> <<>>, tape |-> <<>>]

\* lines 110-113, 130-133, 137-140: the label, the depth, the count and the average
\* are printed in this order; the division raises when the depth is 0, and then
\* nothing after it is printed and nothing is returned.  <<printed, returned>>
Report(label, d, n, outcome, path, tape) ==
    IF d = 0
    THEN << [label |-> label, depth |-> d, transitions |-> n, average |-> <<>>,
             path |-> <<>>, tape |-> <<>>], DivisionError >>
    ELSE << [label |-> label, depth |-> d, transitions |-> n, average |-> <<n, d>>,
             path |-> path, tape |-> tape], outcome >>

NoConfiguration ==
    [left_tape |-> <<>>, current_state |-> "", right_tape |-> <<>>, path |-> <<>>]

---------------------------------------------------------------------------
(* The run *)

Init ==
    /\ file = <<>>
    /\ reader = <<>>
    /\ machine \in Machines
    /\ input_string \in StringsUpTo(MaxInputLen)
    /\ print_path \in BOOLEAN
    /\ stop_condition \in 0..MaxStop
    /\ queue = <<InitialConfiguration(machine, input_string)>>
    /\ depth = 0
    /\ states_explored = 0
    /\ pc = "while"
    /\ cur = NoConfiguration
    /\ possible_transitions = <<>>
    /\ idx = 0
    /\ result = "none"
    /\ output = NoOutput
    /\ expanded = <<>>
    /\ enqueued = <<>>

\* The orders in which a collection without a fixed iteration order may be walked.
AnyOrder(list) ==
    { [i \in 1..Len(list) |-> list[p[i]]] : p \in Permutations(1..Len(list)) }

\* A variant in which the transitions of a key are walked in an arbitrary order,
\* as when they are kept in a set.
PopConfigurationAnyOrder ==
    /\ pc = "while"
    /\ queue # <<>>
    /\ LET popped == PopLeft(queue)
           c      == popped[1]
       IN  \E found \in AnyOrder(get_transitions(machine, c.current_state,
                                                 ReadSymbol(c.right_tape))) :
             /\ cur' = c
             /\ queue' = popped[2]
             /\ possible_transitions' = found
             /\ expanded' = Append(expanded, c)
             /\ IF found = <<>>
                THEN pc' = "while" /\ idx' = 0
                ELSE pc' = "for" /\ idx' = 1
    /\ UNCHANGED <<params, depth, states_explored, result, output, enqueued>>

\* A variant that does not expand a configuration whose state is reject_state.
PopConfigurationHaltsOnReject ==
    /\ pc = "while"
    /\ queue # <<>>
    /\ LET popped == PopLeft(queue)
           c      == popped[1]
           found  == IF c.current_state = machine.reject_state THEN <<>>
                     ELSE get_transitions(machine, c.current_state,
                                          ReadSymbol(c.right_tape))
       IN  /\ cur' = c
           /\ queue' = popped[2]
           /\ possible_transitions' = found
           /\ expanded' = Append(expanded, c)
           /\ IF found = <<>>
              THEN pc' = "while" /\ idx' = 0
              ELSE pc' = "for" /\ idx' = 1
    /\ UNCHANGED <<params, depth, states_explored, result, output, enqueued>>

\* lines 74-85: pop the oldest configuration and look its transitions up; with
\* none, continue with the next element of the queue.
PopConfiguration ==
    /\ pc = "while"
    /\ queue # <<>>
    /\ LET popped == PopLeft(queue)
           c      == popped[1]
           found  == get_transitions(machine, c.current_state, ReadSymbol(c.right_tape))
       IN  /\ cur' = c
           /\ queue' = popped[2]
           /\ possible_transitions' = found
           /\ expanded' = Append(expanded, c)
           /\ IF found = <<>>
              THEN pc' = "while" /\ idx' = 0
              ELSE pc' = "for" /\ idx' = 1
    /\ UNCHANGED <<params, depth, states_explored, result, output, enqueued>>

\* The transition the for loop is at.
Transition == possible_transitions[idx]

\* The for loop goes to its next transition, or ends and the while loop tests again.
NextIteration ==
    /\ idx' = idx + 1
    /\ pc' = IF idx < Len(possible_transitions) THEN "for" ELSE "while"

\* The transition produces a configuration: a right move, or a left move with a
\* left tape to move onto.
Produces ==
    \/ MoveKind(Transition[3]) = "R"
    \/ MoveKind(Transition[3]) = "L" /\ cur.left_tape # <<>>

\* A variant that drops the left move at the left edge without counting it.
SkipLeftEdgeUncounted ==
    /\ pc = "for"
    /\ MoveKind(Transition[3]) = "L"
    /\ cur.left_tape = <<>>
    /\ NextIteration
    /\ UNCHANGED <<params, queue, depth, states_explored, cur, possible_transitions,
                   result, output, expanded, enqueued>>

\* A variant that treats the left move at the left edge as an error.
SkipLeftEdgeAborts ==
    /\ pc = "for"
    /\ MoveKind(Transition[3]) = "L"
    /\ cur.left_tape = <<>>
    /\ states_explored' = states_explored + 1
    /\ result' = InvalidOutcome
    /\ pc' = "done"
    /\ UNCHANGED <<params, queue, depth, cur, possible_transitions, idx, output,
                   expanded, enqueued>>

\* lines 88, 95-97: a left move with the left tape empty is counted and dropped.
SkipLeftEdge ==
    /\ pc = "for"
    /\ MoveKind(Transition[3]) = "L"
    /\ cur.left_tape = <<>>
    /\ states_explored' = states_explored + 1
    /\ NextIteration
    /\ UNCHANGED <<params, queue, depth, cur, possible_transitions, result, output,
                   expanded, enqueued>>

\* lines 88, 101-102: any other direction returns at once.
InvalidDirection ==
    /\ pc = "for"
    /\ MoveKind(Transition[3]) = "invalid"
    /\ states_explored' = states_explored + 1
    /\ result' = InvalidOutcome
    /\ pc' = "done"
    /\ UNCHANGED <<params, queue, depth, cur, possible_transitions, idx, output,
                   expanded, enqueued>>

\* A variant that reports the acceptance and goes on with the loop.
AcceptGoesOn ==
    /\ pc = "for"
    /\ Produces
    /\ Transition[1] = machine.accept_state
    /\ states_explored' = states_explored + 1
    /\ LET new_path == NewPath(cur, Transition)
           report   == Report(AcceptLabel, Len(new_path), states_explored', AcceptOutcome,
                              IF print_path THEN new_path ELSE <<>>,
                              IF print_path THEN NewTapes(cur, Transition) ELSE <<>>)
       IN  output' = report[1] /\ result' = report[2]
    /\ NextIteration
    /\ UNCHANGED <<params, queue, depth, cur, possible_transitions, expanded, enqueued>>

\* lines 88-122: the transition enters the accept state; report and return.
Accept ==
    /\ pc = "for"
    /\ Produces
    /\ Transition[1] = machine.accept_state
    /\ states_explored' = states_explored + 1
    /\ LET new_path == NewPath(cur, Transition)
           report   == Report(AcceptLabel, Len(new_path), states_explored', AcceptOutcome,
                              IF print_path THEN new_path ELSE <<>>,
                              IF print_path THEN NewTapes(cur, Transition) ELSE <<>>)
       IN  output' = report[1] /\ result' = report[2]
    /\ pc' = "done"
    /\ UNCHANGED <<params, queue, depth, cur, possible_transitions, idx,
                   expanded, enqueued>>

\* lines 88-134: the new configuration is appended, depth is updated, and the run
\* returns when depth has reached the stop condition.
Enqueue ==
    /\ pc = "for"
    /\ Produces
    /\ Transition[1] # machine.accept_state
    /\ states_explored' = states_explored + 1
    /\ LET new == NewConfiguration(cur, Transition)
       IN  /\ queue' = Append(queue, new)
           /\ enqueued' = Append(enqueued, new)
           /\ depth' = NewDepth(depth, new.path)
    /\ IF StopReached(depth', stop_condition)
       THEN LET report == Report(ExhaustedLabel, depth', states_explored',
                                 ExhaustedOutcome, <<>>, <<>>)
            IN  /\ output' = report[1]
                /\ result' = report[2]
                /\ pc' = "done"
                /\ idx' = idx
       ELSE /\ NextIteration
            /\ UNCHANGED <<result, output>>
    /\ UNCHANGED <<params, cur, possible_transitions, expanded>>

\* lines 136-141: the queue is empty; report and return.
FrontierEmpty ==
    /\ pc = "while"
    /\ queue = <<>>
    /\ LET report == Report(RejectLabel, depth, states_explored, RejectOutcome, <<>>, <<>>)
       IN  output' = report[1] /\ result' = report[2]
    /\ pc' = "done"
    /\ UNCHANGED <<params, queue, depth, states_explored, cur, possible_transitions,
                   idx, expanded, enqueued>>

Next ==
    \/ PopConfiguration
    \/ SkipLeftEdge
    \/ InvalidDirection
    \/ Accept
    \/ Enqueue
    \/ FrontierEmpty

Spec == Init /\ [][Next]_vars

---------------------------------------------------------------------------
(* Transition sequences of the table, independently of the search order *)

\* How far beyond the stop condition accepting sequences are looked for.
LookAhead == 2

\* A transition can be applied to a configuration: it moves right, or it moves
\* left and there is a cell to the left.
CanApply(c, t) ==
    \/ t[3] = "R"
    \/ t[3] = "L" /\ c.left_tape # <<>>

Lookup(c) == get_transitions(machine, c.current_state, ReadSymbol(c.right_tape))

Successors(c) ==
    { NewConfiguration(c, Lookup(c)[i]) :
        i \in { j \in 1..Len(Lookup(c)) : CanApply(c, Lookup(c)[j]) } }

\* The configurations reached by the sequences of exactly n applicable transitions.
RECURSIVE Level(_)
Level(n) ==
    IF n = 0 THEN {InitialConfiguration(machine, input_string)}
    ELSE UNION { Successors(c) : c \in Level(n - 1) }

\* Some sequence of exactly n transitions ends with a transition into accept_state.
AcceptingSequence(n) ==
    /\ n >= 1
    /\ \E c \in Level(n - 1) : \E i \in 1..Len(Lookup(c)) :
          CanApply(c, Lookup(c)[i]) /\ Lookup(c)[i][1] = machine.accept_state

---------------------------------------------------------------------------
(* C1 *)

\* C1 as stated: the run returns the accept verdict exactly when some sequence of
\* at most stop_condition transitions from the start configuration ends in
\* accept_state.
C1_AcceptIffSequenceWithinBound ==
    pc = "done" =>
        ((result = AcceptOutcome) <=> (\E n \in 1..stop_condition : AcceptingSequence(n)))

\* C1 amended: the accept verdict is returned only if some sequence of at most
\* max(stop_condition, 1) transitions ends in accept_state; and if some sequence
\* of fewer than stop_condition transitions ends in accept_state, the run returns
\* the accept verdict unless it aborts on an invalid move direction.
C1_AcceptSoundAndCompleteBelowBound ==
    pc = "done" =>
        /\ result = AcceptOutcome =>
              \E n \in 1..Max(stop_condition, 1) : AcceptingSequence(n)
        /\ (\E n \in 1..(stop_condition - 1) : AcceptingSequence(n)) =>
              result \in {AcceptOutcome, InvalidOutcome}

\* An accepting run of two steps found below the stop condition.
C1_Witness ==
    /\ pc = "done"
    /\ result = AcceptOutcome
    /\ output.depth = 2
    /\ stop_condition > 2

---------------------------------------------------------------------------
(* C2 *)

\* C2 as stated: when the queue empties and nothing was ever appended to it, the
\* run returns the reject verdict, reports depth 0 and reports an average (the
\* division does not fail).
C2_RejectAtDepthZeroIsReported ==
    (pc = "done" /\ queue = <<>> /\ enqueued = <<>>
        /\ result \notin {AcceptOutcome, InvalidOutcome}) =>
        /\ result = RejectOutcome
        /\ output.label = RejectLabel
        /\ output.depth = 0
        /\ output.average # <<>>

---------------------------------------------------------------------------
(* C3 *)

\* The run ended right after the append that made depth reach stop_condition.
EndedAtTheBound ==
    /\ enqueued # <<>>
    /\ queue # <<>>
    /\ queue[Len(queue)] = enqueued[Len(enqueued)]
    /\ Len(enqueued[Len(enqueued)].path) = stop_condition
    /\ \A i \in 1..(Len(enqueued) - 1) : Len(enqueued[i].path) < stop_condition
    /\ depth = stop_condition
    /\ output.depth = stop_condition

\* There is an accepting sequence and the shortest one is longer than stop_condition.
ShortestAcceptingSequenceBeyondBound ==
    /\ \E n \in 1..(stop_condition + LookAhead) : AcceptingSequence(n)
    /\ ~ \E n \in 1..stop_condition : AcceptingSequence(n)

\* C3 as stated: a resource-exhausted run ends right after the append that made
\* depth reach the stop bound and reports depth = stop bound; and when the
\* shortest accepting sequence is longer than the stop bound, the verdict is
\* resource-exhausted at that depth.
C3_ExhaustedAtTheBound ==
    pc = "done" =>
        /\ result = ExhaustedOutcome => EndedAtTheBound
        /\ ShortestAcceptingSequenceBeyondBound =>
              (result = ExhaustedOutcome /\ EndedAtTheBound)

\* C3 amended: for a stop bound of at least 1, a resource-exhausted run ends right
\* after the append that made depth reach the stop bound and reports depth = stop
\* bound; and when the shortest accepting sequence is longer than the stop bound,
\* the run ends resource-exhausted at that depth unless it aborts on an invalid
\* move direction.
C3_ExhaustedAtPositiveBound ==
    (pc = "done" /\ stop_condition >= 1) =>
        /\ result = ExhaustedOutcome => EndedAtTheBound
        /\ ShortestAcceptingSequenceBeyondBound =>
              \/ result = ExhaustedOutcome /\ EndedAtTheBound
              \/ result = InvalidOutcome

\* A run cut at stop bound 2 although a longer accepting sequence exists.
C3_Witness ==
    /\ pc = "done"
    /\ result = ExhaustedOutcome
    /\ stop_condition = 2
    /\ ShortestAcceptingSequenceBeyondBound

---------------------------------------------------------------------------
(* C4 *)

\* C4 as stated: a run stopped by the depth bound has neither the return value nor
\* the printed verdict label of a run whose queue emptied.
C4_ExhaustedDistinctFromReject ==
    (pc = "done" /\ result = ExhaustedOutcome) =>
        /\ result # RejectOutcome
        /\ output.label # RejectLabel

---------------------------------------------------------------------------
(* C5 *)

\* The for loop is at a transition whose direction is neither "L" nor "R".
AtMalformedTransition ==
    pc = "for" /\ Transition[3] \notin {"L", "R"}

\* C5: a step taken at a transition whose direction is neither "L" nor "R" ends
\* the run with the invalid-move-direction outcome, which is none of the three
\* verdicts; it appends nothing to the queue, pops nothing and prints nothing,
\* whatever the transition's next_state is; and a run that has ended takes no
\* further step.
C5_MalformedDirectionAborts ==
    [][ /\ AtMalformedTransition =>
              /\ pc' = "done"
              /\ result' = InvalidOutcome
              /\ result' \notin {AcceptOutcome, RejectOutcome, ExhaustedOutcome}
              /\ queue' = queue
              /\ enqueued' = enqueued
              /\ expanded' = expanded
              /\ output' = output
        /\ pc = "done" => UNCHANGED vars ]_vars

\* The run aborted at a malformed transition into accept_state, with a later
\* transition of the same configuration left unprocessed.
C5_Witness ==
    /\ pc = "done"
    /\ result = InvalidOutcome
    /\ Transition[3] = "D"
    /\ Transition[1] = machine.accept_state
    /\ idx < Len(possible_transitions)

---------------------------------------------------------------------------
(* C6 *)

LookupCount(c) == Len(Lookup(c))

RECURSIVE SumLookupCounts(_)
SumLookupCounts(cs) ==
    IF cs = <<>> THEN 0 ELSE LookupCount(Head(cs)) + SumLookupCounts(Tail(cs))

\* The transitions the loop has begun to apply: all those of the configurations
\* whose for loop is over, and those of the configuration being expanded up to
\* the position of its for loop.
TransitionsBegun ==
    IF expanded = <<>> THEN 0
    ELSE LET earlier == SubSeq(expanded, 1, Len(expanded) - 1)
             last    == expanded[Len(expanded)]
             begun   == IF pc = "for" THEN idx - 1
                        ELSE IF pc = "done" /\ idx \in 1..LookupCount(last) THEN idx
                        ELSE LookupCount(last)
         IN  SumLookupCounts(earlier) + begun

StatesExploredCounts == states_explored = TransitionsBegun

\* C6: states_explored is 0 at the start, never decreases, and at every point
\* equals the number of transitions the loop has begun to apply, left moves
\* dropped at the left edge included; a configuration without transitions adds 0.
C6_StatesExploredCountsAttempts ==
    [][ /\ StatesExploredCounts
        /\ StatesExploredCounts'
        /\ states_explored' >= states_explored
        /\ (expanded = <<>> => states_explored = 0) ]_vars

\* A left move was dropped at the left edge and counted, and a configuration
\* without transitions has been expanded since.
C6_Witness ==
    /\ Len(expanded) >= 2
    /\ LookupCount(expanded[1]) >= 1
    /\ Lookup(expanded[1])[1][3] = "L"
    /\ LookupCount(expanded[Len(expanded)]) = 0
    /\ pc = "while"
    /\ states_explored = 2

---------------------------------------------------------------------------
(* C7 *)

RECURSIVE MaxPathLength(_)
MaxPathLength(cs) ==
    IF cs = <<>> THEN 0 ELSE Max(Len(Head(cs).path), MaxPathLength(Tail(cs)))

DepthIsMaxEnqueued == depth = MaxPathLength(enqueued)

\* C7: at every point of a run, depth is the greatest path length among the
\* configurations appended to the queue by a transition so far (0 when there is
\* none), and depth never decreases.
C7_DepthIsMaxEnqueuedPathLength ==
    [][ /\ DepthIsMaxEnqueued
        /\ DepthIsMaxEnqueued'
        /\ depth' >= depth ]_vars

\* Configurations of path lengths 1 and 2 have been appended.
C7_Witness ==
    /\ Len(enqueued) >= 3
    /\ depth = 2
    /\ Len(enqueued[1].path) = 1

---------------------------------------------------------------------------
(* C8 *)

\* A tape as a row of cells with a head position (1-based); the cells beyond the
\* row are blank.
ReadCell(cells, head) ==
    IF head <= Len(cells) THEN <<cells[head]>> ELSE Blank

WriteCell(cells, head, symbol) ==
    IF head <= Len(cells)
    THEN [cells EXCEPT ![head] = symbol[1]]
    ELSE cells \o symbol

\* One step on the cells: the step must read what is under the head, writes its
\* symbol there and moves the head by one cell; the row grows by a blank when the
\* head leaves it to the right.
ReplayStep(tm, step) ==
    LET written == WriteCell(tm.cells, tm.head, step[4])
        head    == IF step[5] = "R" THEN tm.head + 1 ELSE tm.head - 1
    IN  [ ok    |-> /\ tm.ok
                    /\ step[2] = ReadCell(tm.cells, tm.head)
                    /\ step[5] \in {"L", "R"}
                    /\ head >= 1,
          cells |-> IF head > Len(written) THEN written \o Blank ELSE written,
          head  |-> head ]

RECURSIVE Replay(_, _)
Replay(tm, path) ==
    IF path = <<>> THEN tm ELSE Replay(ReplayStep(tm, Head(path)), Tail(path))

\* The step is an entry of the table for its from-state and read symbol.
IsTableEntry(step) ==
    \E i \in 1..Len(get_transitions(machine, step[1], step[2])) :
        get_transitions(machine, step[1], step[2])[i] = <<step[3], step[4], step[5]>>

ValidChain(path) ==
    /\ path # <<>>
    /\ path[1][1] = machine.start_state
    /\ \A i \in 1..(Len(path) - 1) : path[i][3] = path[i + 1][1]
    /\ path[Len(path)][3] = machine.accept_state
    /\ \A i \in 1..Len(path) : IsTableEntry(path[i])

ReplayYields(path, tape) ==
    LET tm == Replay([ok |-> TRUE, cells |-> input_string, head |-> 1], path)
    IN  /\ tm.ok
        /\ tape[1] = SubSeq(tm.cells, 1, tm.head - 1)
        /\ tape[2] = SubSeq(tm.cells, tm.head, Len(tm.cells))

\* C8: on an accept verdict with the path printed, the printed path starts in
\* start_state, chains next_state to from-state, ends in accept_state, consists of
\* table entries, has the reported length, and replayed cell by cell on the input
\* string gives the printed left and right tape halves.
C8_AcceptedPathIsValidChain ==
    (pc = "done" /\ result = AcceptOutcome /\ print_path) =>
        /\ ValidChain(output.path)
        /\ Len(output.path) = output.depth
        /\ ReplayYields(output.path, output.tape)

\* An accepted path of three steps with a left move and a step that changes the
\* symbol under the head.
C8_Witness ==
    /\ pc = "done"
    /\ result = AcceptOutcome
    /\ print_path
    /\ Len(output.path) = 3
    /\ \E i \in 1..3 : output.path[i][5] = "L"
    /\ \E i \in 1..3 : output.path[i][2] # output.path[i][4]

---------------------------------------------------------------------------
(* C9 *)

PathLengths(cs) == [i \in 1..Len(cs) |-> Len(cs[i].path)]

NonDecreasing(ns) == \A i \in 1..(Len(ns) - 1) : ns[i] <= ns[i + 1]

\* The configurations are popped in the order in which they were put in the
\* queue: the popped ones followed by the queued ones are the initial one
\* followed by the appended ones.
FirstInFirstOut ==
    expanded \o queue = <<InitialConfiguration(machine, input_string)>> \o enqueued

\* C9: the queue is first-in-first-out; the path lengths in the queue do not
\* decrease from front to back and differ by at most 1; the path lengths of the
\* popped configurations do not decrease, and no queued configuration has a
\* shorter path than a popped one.
C9_FifoLevelOrder ==
    /\ FirstInFirstOut
    /\ NonDecreasing(PathLengths(queue))
    /\ queue # <<>> => Len(queue[Len(queue)].path) - Len(queue[1].path) <= 1
    /\ NonDecreasing(PathLengths(expanded))
    /\ \A i \in 1..Len(expanded) : \A j \in 1..Len(queue) :
          Len(expanded[i].path) <= Len(queue[j].path)

\* While a configuration of path length 1 is expanded, the queue holds one of
\* path length 1 in front of one of path length 2.
C9_Witness ==
    /\ Len(queue) >= 2
    /\ Len(queue[1].path) = 1
    /\ Len(queue[Len(queue)].path) = 2
    /\ Len(cur.path) = 1

---------------------------------------------------------------------------
(* C10 *)

\* The values each part of the program state may take after one step.
QueueAfter ==
    {queue} \cup (IF queue # <<>> THEN {Tail(queue)} ELSE {})
            \cup (IF pc = "for" /\ Produces
                  THEN {Append(queue, NewConfiguration(cur, Transition))} ELSE {})

CurAfter == {cur} \cup {queue[i] : i \in 1..Len(queue)}

PossibleTransitionsAfter ==
    {possible_transitions, <<>>}
        \cup {machine.transitions[k] : k \in DOMAIN machine.transitions}

DepthAfter == {depth} \cup 1..(Len(cur.path) + 1)

ResultAfter ==
    {"none", AcceptOutcome, ExhaustedOutcome, RejectOutcome, InvalidOutcome, DivisionError}

\* The step has exactly one outcome for the loop state: the control point, the
\* queue, the popped tuple, the transitions walked and the position in them.
OneLoopStateAfter ==
    /\ ~ ENABLED (Next /\ params' # params)
    /\ \E v \in {"while", "for", "done"} :
          ENABLED (Next /\ pc' = v) /\ ~ ENABLED (Next /\ pc' # v)
    /\ \E v \in QueueAfter :
          ENABLED (Next /\ queue' = v) /\ ~ ENABLED (Next /\ queue' # v)
    /\ \E v \in CurAfter :
          ENABLED (Next /\ cur' = v) /\ ~ ENABLED (Next /\ cur' # v)
    /\ \E v \in PossibleTransitionsAfter :
          /\ ENABLED (Next /\ possible_transitions' = v)
          /\ ~ ENABLED (Next /\ possible_transitions' # v)
    /\ \E v \in 0..(idx + 1) :
          ENABLED (Next /\ idx' = v) /\ ~ ENABLED (Next /\ idx' # v)

\* The step has exactly one outcome for the counters and the returned value.
OneCountAndResultAfter ==
    /\ \E v \in DepthAfter :
          ENABLED (Next /\ depth' = v) /\ ~ ENABLED (Next /\ depth' # v)
    /\ \E v \in {states_explored, states_explored + 1} :
          /\ ENABLED (Next /\ states_explored' = v)
          /\ ~ ENABLED (Next /\ states_explored' # v)
    /\ \E v \in ResultAfter :
          ENABLED (Next /\ result' = v) /\ ~ ENABLED (Next /\ result' # v)

\* The step has exactly one outcome for what is printed.
OneOutputAfter ==
    /\ \E v \in {"", AcceptLabel, ExhaustedLabel, RejectLabel} :
          ENABLED (Next /\ output'.label = v) /\ ~ ENABLED (Next /\ output'.label # v)
    /\ \E v \in {-1} \cup DepthAfter :
          ENABLED (Next /\ output'.depth = v) /\ ~ ENABLED (Next /\ output'.depth # v)
    /\ \E v \in {-1, states_explored, states_explored + 1} :
          /\ ENABLED (Next /\ output'.transitions = v)
          /\ ~ ENABLED (Next /\ output'.transitions # v)
    /\ \E v \in {<<>>} \cup ({states_explored, states_explored + 1} \X DepthAfter) :
          /\ ENABLED (Next /\ output'.average = v)
          /\ ~ ENABLED (Next /\ output'.average # v)
    /\ \E v \in {<<>>} \cup (IF pc = "for" THEN {NewPath(cur, Transition)} ELSE {}) :
          ENABLED (Next /\ output'.path = v) /\ ~ ENABLED (Next /\ output'.path # v)
    /\ \E v \in {<<>>} \cup (IF pc = "for" /\ Produces
                               THEN {NewTapes(cur, Transition)} ELSE {}) :
          ENABLED (Next /\ output'.tape = v) /\ ~ ENABLED (Next /\ output'.tape # v)

\* The runs on which the successors are counted: the path is printed, and the
\* machine has no row for (q1, b) and at most the right-moving row for (q0, b).
InitDeterminism ==
    /\ Init
    /\ print_path
    /\ K("q1", "b") \notin DOMAIN machine.transitions
    /\ K("q0", "b") \in DOMAIN machine.transitions =>
          machine.transitions[K("q0", "b")] = <<T("q0", "b", "R")>>

SpecDeterminism == InitDeterminism /\ [][Next]_vars

\* C10: from every state of a run that has not ended there is exactly one
\* successor state (one value for every part of the program state), and from a
\* state of a run that has ended there is none; so the parameters determine the
\* whole run, its verdict, counters and path.
C10_ExactlyOneSuccessor ==
    /\ pc # "done" => OneLoopStateAfter /\ OneCountAndResultAfter /\ OneOutputAfter
    /\ pc = "done" => ~ ENABLED Next

\* A configuration with two transitions is about to be expanded in a run that
\* goes on.
C10_Witness ==
    /\ pc = "for"
    /\ idx = 1
    /\ Len(possible_transitions) = 2
    /\ possible_transitions[1] # possible_transitions[2]
    /\ Len(cur.path) >= 1

---------------------------------------------------------------------------
(* The definition file and parse_tm_file.  A line of the file is a sequence *)
(* of tokens: a comma, a double quote, or a run of ordinary characters.  A  *)
(* field is the sequence of the runs between two separators.  A state name  *)
(* or a direction is one run; a symbol is a sequence of one-character runs. *)

Comma == ","

Quote == "\""

\* csv.reader on one line: commas outside double quotes separate the fields,
\* the quotes themselves are dropped, and an empty line gives an empty row.
RECURSIVE CsvScan(_, _, _, _, _)
CsvScan(line, i, quoted, field, fields) ==
    IF i > Len(line) THEN Append(fields, field)
    ELSE IF line[i] = Quote THEN CsvScan(line, i + 1, ~quoted, field, fields)
    ELSE IF line[i] = Comma /\ ~quoted
         THEN CsvScan(line, i + 1, quoted, <<>>, Append(fields, field))
    ELSE CsvScan(line, i + 1, quoted, Append(field, line[i]), fields)

CsvRow(line) == IF line = <<>> THEN <<>> ELSE CsvScan(line, 1, FALSE, <<>>, <<>>)

\* str.split(','): the pieces of a string between its commas.
RECURSIVE SplitScan(_, _, _, _)
SplitScan(string, i, piece, pieces) ==
    IF i > Len(string) THEN Append(pieces, piece)
    ELSE IF string[i] = Comma THEN SplitScan(string, i + 1, <<>>, Append(pieces, piece))
    ELSE SplitScan(string, i + 1, Append(piece, string[i]), pieces)

Split(string) == SplitScan(string, 1, <<>>, <<>>)

\* The string held by a field that is one run of characters.
Atom(field) == field[1]

Names(fields) == [i \in 1..Len(fields) |-> Atom(fields[i])]

\* next(reader)[0]
FirstField(line) == CsvRow(line)[1]

\* The dictionary of lines 17 to 26, built from the first seven lines.
Header(lines) ==
    [name           |-> FirstField(lines[1]),
     states         |-> Names(Split(FirstField(lines[2]))),
     input_alphabet |-> Split(FirstField(lines[3])),
     tape_alphabet  |-> Split(FirstField(lines[4])),
     start_state    |-> Atom(FirstField(lines[5])),
     accept_state   |-> Atom(FirstField(lines[6])),
     reject_state   |-> Atom(FirstField(lines[7])),
     transitions    |-> <<>>]

RowKey(row) == <<Atom(row[1]), row[2]>>

RowValue(row) == <<Atom(row[3]), row[4], Atom(row[5])>>

PrependRecord(list, value) == <<value>> \o list

AppendRecord(list, value) == Append(list, value)

\* Lines 34 to 42: the record of a row joins the list of its key.
AddRecord(transitions, row) ==
    LET key == RowKey(row)
        old == IF key \in DOMAIN transitions THEN transitions[key] ELSE <<>>
    IN  [k \in DOMAIN transitions \cup {key} |->
            IF k = key THEN AppendRecord(old, RowValue(row)) ELSE transitions[k]]

\* The definition files of the model.
RowLine(a, b, c, d, e) == <<a, Comma, b, Comma, c, Comma, d, Comma, e>>

Quoted(line) == <<Quote>> \o line \o <<Quote>>

StatesLine == <<"q0", Comma, "q1", Comma, "qa", Comma, "qr">>

InputAlphabetLine == <<"a", Comma, "b">>

TapeAlphabetLine == <<"a", Comma, "b", Comma, "_">>

Headers ==
    { <<<<"m">>, StatesLine, InputAlphabetLine, TapeAlphabetLine,
        <<"q0">>, <<"qa">>, <<"qr">>>>,
      <<<<"m">>, Quoted(StatesLine), Quoted(InputAlphabetLine), Quoted(TapeAlphabetLine),
        <<"q0">>, <<"qa">>, <<"qr">>>> }

RowPool ==
    { RowLine("q0", "a", "q0", "a", "R"),
      RowLine("q0", "a", "q1", "b", "R"),
      RowLine("q1", "_", "qa", "_", "L"),
      <<"q0", Comma, "a", Comma, "q1", Comma, "b">>,
      RowLine("q1", "_", "qx", "c", "R"),
      RowLine("q0", "b", "q0", "b", "L"),
      RowLine("q1", "a", "q0", "a", "D"),
      <<>> }

Files == { h \o <<r1, r2, r3>> : h \in Headers, r1 \in RowPool, r2 \in RowPool, r3 \in RowPool }

NoMachine ==
    [name |-> <<>>, states |-> <<>>, input_alphabet |-> <<>>, tape_alphabet |-> <<>>,
     start_state |-> "", accept_state |-> "", reject_state |-> "", transitions |-> <<>>]

\* main: the file is parsed, then traced without printing the path.
InitLoader ==
    /\ file \in Files
    /\ reader = file
    /\ machine = NoMachine
    /\ input_string \in StringsUpTo(MaxInputLen)
    /\ print_path = FALSE
    /\ stop_condition \in 0..MaxStop
    /\ queue = <<>>
    /\ depth = 0
    /\ states_explored = 0
    /\ pc = "header"
    /\ cur = NoConfiguration
    /\ possible_transitions = <<>>
    /\ idx = 0
    /\ result = "none"
    /\ output = NoOutput
    /\ expanded = <<>>
    /\ enqueued = <<>>

loop == <<queue, depth, states_explored, cur, possible_transitions, idx, result, output,
          expanded, enqueued>>

ReadHeader ==
    /\ pc = "header"
    /\ machine' = Header(reader)
    /\ reader' = SubSeq(reader, 8, Len(reader))
    /\ pc' = "rows"
    /\ UNCHANGED <<file, input_string, print_path, stop_condition, loop>>

ReadRow ==
    /\ pc = "rows"
    /\ reader # <<>>
    /\ LET row == CsvRow(Head(reader))
       IN  machine' = IF Len(row) < 5 THEN machine
                      ELSE [machine EXCEPT !.transitions = AddRecord(@, row)]
    /\ reader' = Tail(reader)
    /\ pc' = "rows"
    /\ UNCHANGED <<file, input_string, print_path, stop_condition, loop>>

\* The reader is exhausted: parse_tm_file returns and trace_tm starts.
StartTrace ==
    /\ pc = "rows"
    /\ reader = <<>>
    /\ queue' = <<InitialConfiguration(machine, input_string)>>
    /\ depth' = 0
    /\ states_explored' = 0
    /\ pc' = "while"
    /\ UNCHANGED <<params, cur, possible_transitions, idx, result, output, expanded, enqueued>>

NextLoader ==
    \/ ReadHeader
    \/ ReadRow
    \/ StartTrace
    \/ Next

SpecLoader == InitLoader /\ [][NextLoader]_vars

---------------------------------------------------------------------------
(* C11 *)

Loaded == pc \notin {"header", "rows"}

\* The rows of the file after the header, as the csv reader gives them.
FileRows == [i \in 8..Len(file) |-> CsvRow(file[i])]

\* The positions of the rows of at least five fields whose first two fields are
\* the key.
RowsOfKey(rows, key) ==
    { i \in DOMAIN rows : Len(rows[i]) >= 5 /\ RowKey(rows[i]) = key }

\* Their records, in the order of the file.
RecordsOfKey(rows, key) ==
    LET of == RowsOfKey(rows, key)
        nth(j) == CHOOSE i \in of : Cardinality({h \in of : h < i}) = j - 1
    IN  [j \in 1..Cardinality(of) |-> RowValue(rows[nth(j)])]

KeyUniverse ==
    { <<q, <<y>>>> : q \in {"q0", "q1", "qa", "qr", "qx"}, y \in {"a", "b", "c", "_"} }

\* The keys of the rows of at least five fields.
FileKeys(rows) == { RowKey(rows[i]) : i \in { h \in DOMAIN rows : Len(rows[h]) >= 5 } }

StoredInFileOrder ==
    LET rows == FileRows
        keys == FileKeys(rows)
    IN  /\ keys \subseteq KeyUniverse
        /\ \A key \in keys :
              get_transitions(machine, key[1], key[2]) = RecordsOfKey(rows, key)
        /\ \A key \in KeyUniverse \ keys :
              /\ get_transitions(machine, key[1], key[2]) = <<>>
              /\ key \notin DOMAIN machine.transitions

\* What parse_tm_file returns when the reader is exhausted is what the run
\* looks up in, to its end.
LoadedOnce ==
    /\ (pc = "rows" /\ reader = <<>>) => StoredInFileOrder /\ machine' = machine
    /\ Loaded => machine' = machine /\ file' = file

\* The for loop walks the records of the configuration's key from the first on,
\* and what it appends is the child by the record at its position.
ChildrenInFileOrder ==
    LET records == RecordsOfKey(FileRows, <<cur.current_state, ReadSymbol(cur.right_tape)>>)
    IN  /\ (pc = "while" /\ pc' = "for") => idx' = 1
        /\ (pc = "for" /\ pc' = "for") => idx' = idx + 1
        /\ enqueued' # enqueued =>
              /\ idx \in 1..Len(records)
              /\ enqueued' = Append(enqueued, NewConfiguration(cur, records[idx]))
              /\ queue' = Append(queue, NewConfiguration(cur, records[idx]))

\* C11: after loading, the list stored for every key is exactly the file's
\* records with that key, in file order, rows of fewer than five fields being
\* skipped; the lookup gives the empty list for a key without record; and the
\* simulator appends a configuration's children in the order of that list.
C11_RecordsInFileOrder == [][LoadedOnce /\ ChildrenInFileOrder]_vars

\* A file whose first and third rows share the key (q0, a), with a row of four
\* fields between them, has been loaded, and both children are in the queue.
C11_Witness ==
    /\ Loaded
    /\ Len(CsvRow(file[9])) = 4
    /\ get_transitions(machine, "q0", <<"a">>) = <<T("q0", "a", "R"), T("q1", "b", "R")>>
    /\ Len(enqueued) >= 2
    /\ enqueued[1].current_state = "q0"
    /\ enqueued[2].current_state = "q1"

---------------------------------------------------------------------------
(* C12 *)

Elements(list) == { list[i] : i \in DOMAIN list }

NotQuote(token) == token # Quote

\* The elements of a line that is a comma-separated list, whether or not the
\* list is enclosed in double quotes.
Entries(line) == Elements(Split(SelectSeq(line, NotQuote)))

\* C12 as stated: for a file whose lines 2, 3 and 4 are comma-separated lists,
\* the loaded states, input_alphabet and tape_alphabet each contain every
\* element of their line, not only the first.
C12_HeaderListsLoadedWhole ==
    pc # "header" =>
        /\ { Atom(e) : e \in Entries(file[2]) } \subseteq Elements(machine.states)
        /\ Entries(file[3]) \subseteq Elements(machine.input_alphabet)
        /\ Entries(file[4]) \subseteq Elements(machine.tape_alphabet)

---------------------------------------------------------------------------
(* C13 *)

\* C13 as stated: a machine the simulator runs has been validated: every
\* next_state of its table is one of the states of the definition, and every
\* write_symbol is in its tape alphabet; a file violating this is not run.
C13_OnlyValidatedMachinesRun ==
    expanded # <<>> =>
        \A key \in DOMAIN machine.transitions :
            \A i \in 1..Len(machine.transitions[key]) :
                /\ machine.transitions[key][i][1] \in { Atom(e) : e \in Entries(file[2]) }
                /\ machine.transitions[key][i][2] \in Entries(file[4])

---------------------------------------------------------------------------
(* C14 *)

AtLeftEdge == pc = "for" /\ Transition[3] = "L" /\ cur.left_tape = <<>>

LeftEdgeStep ==
    AtLeftEdge =>
        /\ queue' = queue
        /\ enqueued' = enqueued
        /\ depth' = depth
        /\ result' = "none"
        /\ output' = output
        /\ cur' = cur
        /\ possible_transitions' = possible_transitions
        /\ idx' = idx + 1
        /\ pc' = IF idx < Len(possible_transitions) THEN "for" ELSE "while"

\* C14: a left move attempted with the left tape empty produces no
\* configuration and is not an error: nothing is enqueued, depth is unchanged,
\* the run goes on, and the loop moves to the configuration's next transition
\* or, after the last one, back to the frontier.
C14_LeftEdgeDropsQuietly == [][LeftEdgeStep]_vars

\* The start configuration's first transition was a left move at the left edge;
\* a later transition of the same configuration was enqueued, and the frontier
\* has been taken from again.
C14_Witness ==
    /\ Len(expanded) >= 2
    /\ result = "none"
    /\ LookupCount(expanded[1]) >= 2
    /\ Lookup(expanded[1])[1][3] = "L"
    /\ Lookup(expanded[1])[2][3] = "R"
    /\ enqueued # <<>>
    /\ enqueued[1] = NewConfiguration(expanded[1], Lookup(expanded[1])[2])

---------------------------------------------------------------------------
(* C15 *)

\* Every configuration the run has held: taken from the queue, or still in it.
Held == Elements(expanded) \cup Elements(queue)

\* C15: every configuration produced by a transition has a non-empty right
\* tape; a right move from a right tape of length 0 or 1 leaves the single blank
\* as right tape; only the initial configuration of an empty input has an empty
\* right tape, and its read symbol is the blank; every read gives one symbol.
C15_RightTapeNeverEmptyAfterMove ==
    /\ \A i \in 1..Len(enqueued) : enqueued[i].right_tape # <<>>
    /\ (result = AcceptOutcome /\ print_path) => output.tape[2] # <<>>
    /\ \A c \in Held :
          /\ c.right_tape = <<>> =>
                /\ c = InitialConfiguration(machine, input_string)
                /\ input_string = <<>>
                /\ ReadSymbol(c.right_tape) = Blank
          /\ Len(ReadSymbol(c.right_tape)) = 1
          /\ c.right_tape # <<>> => ReadSymbol(c.right_tape) = <<c.right_tape[1]>>
          /\ \A i \in 1..LookupCount(c) :
                /\ Lookup(c)[i][3] = "R" /\ Len(c.right_tape) <= 1 =>
                      NewConfiguration(c, Lookup(c)[i]).right_tape = Blank
                /\ CanApply(c, Lookup(c)[i]) =>
                      NewConfiguration(c, Lookup(c)[i]).right_tape # <<>>

\* A right move at the last symbol of the input gave a child whose right tape is
\* the blank, and a right move of that child gave the blank again.
C15_Witness ==
    /\ Len(input_string) = 1
    /\ Len(enqueued) >= 2
    /\ \E i \in 1..Len(enqueued) : \E j \in 1..Len(enqueued) :
          /\ Len(enqueued[i].path) = 1
          /\ enqueued[i].path[1][5] = "R"
          /\ enqueued[i].right_tape = Blank
          /\ Len(enqueued[j].path) = 2
          /\ enqueued[j].path[1] = enqueued[i].path[1]
          /\ enqueued[j].path[2][5] = "R"
          /\ enqueued[j].right_tape = Blank

---------------------------------------------------------------------------
(* C16 *)

\* The whole tape of a configuration, an empty right tape being one blank.
TapeOf(c) == c.left_tape \o (IF c.right_tape = <<>> THEN Blank ELSE c.right_tape)

HeadOf(c) == Len(c.left_tape)

\* The tape of c with the cell under the head replaced by the symbol.
WrittenTape(c, symbol) ==
    SubSeq(TapeOf(c), 1, HeadOf(c)) \o symbol \o
        SubSeq(TapeOf(c), HeadOf(c) + 2, Len(TapeOf(c)))

OnlyHeadCellChanges(c, t) ==
    LET child == NewConfiguration(c, t)
    IN  /\ child.left_tape \o child.right_tape \in
              { WrittenTape(c, t[2]), WrittenTape(c, t[2]) \o Blank }
        /\ t[3] = "R" => HeadOf(child) = HeadOf(c) + 1
        /\ t[3] = "L" =>
              /\ HeadOf(child) = HeadOf(c) - 1
              /\ child.right_tape =
                    <<c.left_tape[Len(c.left_tape)]>> \o t[2] \o
                        SubSeq(c.right_tape, 2, Len(c.right_tape))

\* C16: applying a transition changes the tape only at the cell under the
\* head: the child's left tape followed by its right tape is the parent's tape
\* with that cell replaced by write_symbol, plus at most one trailing blank; the
\* head moves by one to the right or to the left; and after a left move the
\* right tape is the parent's last left symbol, write_symbol, and the parent's
\* right tape without its first symbol.
C16_OnlyHeadCellChanges ==
    /\ \A c \in Held : \A i \in 1..LookupCount(c) :
          CanApply(c, Lookup(c)[i]) => OnlyHeadCellChanges(c, Lookup(c)[i])
    /\ \A i \in 1..Len(enqueued) : \E c \in Elements(expanded) : \E j \in 1..LookupCount(c) :
          /\ CanApply(c, Lookup(c)[j])
          /\ enqueued[i] = NewConfiguration(c, Lookup(c)[j])

\* A configuration produced by a left move that wrote a symbol other than the
\* one read has been enqueued.
C16_Witness ==
    \E i \in 1..Len(enqueued) :
        LET step == enqueued[i].path[Len(enqueued[i].path)]
        IN  /\ step[5] = "L"
            /\ step[2] # step[4]
            /\ Len(enqueued[i].right_tape) >= 3

---------------------------------------------------------------------------
(* C17 *)

Accepted == result = AcceptOutcome

\* The transition at the loop's position is the first applied transition that
\* enters accept_state: no configuration in accept_state was ever enqueued, and
\* an earlier transition of the same list into accept_state was a left move at
\* the left edge.
StoppedAtFirstAccepting ==
    /\ idx \in 1..Len(possible_transitions)
    /\ Transition[1] = machine.accept_state
    /\ CanApply(cur, Transition)
    /\ \A i \in 1..Len(enqueued) : enqueued[i].current_state # machine.accept_state
    /\ \A j \in 1..(idx - 1) :
          possible_transitions[j][1] = machine.accept_state =>
              ~ CanApply(cur, possible_transitions[j])

ShortestAcceptingLength(n) ==
    /\ AcceptingSequence(n)
    /\ \A k \in 1..(n - 1) : ~ AcceptingSequence(k)

---------------------------------------------------------------------------
(* C18 *)

\* The loop of trace_tm is sequential code: a step that can be taken is taken.
SpecTermination == Init /\ [][Next]_vars /\ WF_vars(Next)

\* C18 as stated: for a stop bound of at least 1, every configuration ever
\* enqueued has a path length strictly below the stop bound.
C18_EnqueuedBelowStopBound ==
    stop_condition >= 1 =>
        \A i \in 1..Len(enqueued) : Len(enqueued[i].path) < stop_condition

PathsWithinBound ==
    /\ \A i \in 1..Len(enqueued) : Len(enqueued[i].path) <= Max(stop_condition, 1)
    /\ stop_condition >= 1 =>
          \A i \in 1..Len(expanded) : Len(expanded[i].path) < stop_condition

\* C18 amended: every configuration ever enqueued has a path length of at most
\* the stop bound (at most 1 for a bound below 1), every configuration ever
\* expanded has, for a bound of at least 1, a path length strictly below it, and
\* the run eventually ends, whatever the machine, the input and the bound.
C18_BoundedPathsAndTermination == [](PathsWithinBound) /\ <>(pc = "done")

\* A run on a branch that repeats the same step for ever was ended by the bound,
\* the last configuration enqueued having a path as long as the bound.
C18_Witness ==
    /\ pc = "done"
    /\ result = ExhaustedOutcome
    /\ stop_condition = MaxStop
    /\ LET last == enqueued[Len(enqueued)]
       IN  /\ Len(last.path) = stop_condition
           /\ last.path[Len(last.path)] = last.path[Len(last.path) - 1]
           /\ last.path[Len(last.path)][1] = last.path[Len(last.path)][3]

---------------------------------------------------------------------------
(* C19 *)

\* The roles a definition file may give to the states of a table: a reject
\* state that has rows of its own, or an accept state that is the start state.
RoleChoices ==
    { [accept_state |-> "qa", reject_state |-> "q1"],
      [accept_state |-> "q0", reject_state |-> "qr"] }

MachinesWithRoles ==
    { [m EXCEPT !.accept_state = r.accept_state, !.reject_state = r.reject_state] :
        m \in Machines, r \in RoleChoices }

InitRoles ==
    /\ file = <<>>
    /\ reader = <<>>
    /\ machine \in MachinesWithRoles
    /\ input_string \in StringsUpTo(MaxInputLen)
    /\ print_path = FALSE
    /\ stop_condition \in 0..MaxStop
    /\ queue = <<InitialConfiguration(machine, input_string)>>
    /\ depth = 0
    /\ states_explored = 0
    /\ pc = "while"
    /\ cur = NoConfiguration
    /\ possible_transitions = <<>>
    /\ idx = 0
    /\ result = "none"
    /\ output = NoOutput
    /\ expanded = <<>>
    /\ enqueued = <<>>

SpecRoles == InitRoles /\ [][Next]_vars

\* The for loop over the i-th expanded configuration has run to its end.
FullyExpanded(i) ==
    \/ i < Len(expanded)
    \/ pc = "while"
    \/ pc = "done" /\ result \in {RejectOutcome, DivisionError}

\* The enqueued configurations whose path is the path of c and one step more.
ChildrenOf(c) ==
    { e \in Elements(enqueued) :
        /\ Len(e.path) = Len(c.path) + 1
        /\ SubSeq(e.path, 1, Len(c.path)) = c.path }

NoApplicableTransition(c) ==
    \/ Lookup(c) = <<>>
    \/ \A i \in 1..LookupCount(c) : Lookup(c)[i][3] = "L" /\ c.left_tape = <<>>

\* C19: a configuration is left without children only when the lookup gives no
\* transition or every transition it gives is a left move at the left edge; the
\* state of a configuration never ends its branch: a configuration in
\* reject_state, and a start configuration whose state is accept_state, is
\* looked up and expanded like any other; and the run rejects only when the
\* frontier is empty.
C19_OnlyTheTableEndsABranch ==
    /\ pc = "for" => possible_transitions = Lookup(cur) /\ idx \in 1..LookupCount(cur)
    /\ \A i \in 1..Len(expanded) :
          FullyExpanded(i) =>
              /\ ChildrenOf(expanded[i]) = Successors(expanded[i])
              /\ ChildrenOf(expanded[i]) = {} <=> NoApplicableTransition(expanded[i])
    /\ result \in {RejectOutcome, DivisionError} =>
          /\ queue = <<>>
          /\ Elements(enqueued) \subseteq Elements(expanded)

\* A configuration in reject_state has been expanded and its children enqueued.
C19_Witness ==
    \E i \in 1..Len(expanded) :
        /\ FullyExpanded(i)
        /\ expanded[i].current_state = machine.reject_state
        /\ ChildrenOf(expanded[i]) # {}

====
